---- MODULE Spec2Model ----
(***************************************************************************)
(* A model of jsoncsvconverter (src/src/tool.py): the conversion between a *)
(* JSON object of records and a CSV table, the round-trip verification and *)
(* the three file commands built on them.                                  *)
(*                                                                         *)
(* Representation.  A Python str is a sequence of one-character strings    *)
(* (<<"i", "d">> is 'id').  A Python value is a record tagged by t:        *)
(*   [t |-> "str", s |-> chars]     [t |-> "int", n |-> Int]               *)
(*   [t |-> "bool", b |-> BOOLEAN]  [t |-> "none"]                         *)
(*   [t |-> "float", cls, sign, coef, exp]  (sign * coef * 10^exp, or inf  *)
(*   or nan; coef carries no trailing zero, so the record is canonical)    *)
(*   [t |-> "dict", items |-> sequence of [k |-> chars, v |-> value]]      *)
(*   [t |-> "list", items |-> sequence]                                    *)
(* A dict keeps its items in insertion order, as Python's does.            *)
(* An exception is a record [ok |-> FALSE, exc |-> class, msg |-> text].   *)
(***************************************************************************)
EXTENDS Integers, Sequences, FiniteSets, TLC

VARIABLES fs, call, ret, ncmds

vars == <<fs, call, ret, ncmds>>

----------------------------------------------------------------------------
(* Characters and str methods (the part of ASCII the inputs are drawn from) *)

\* The printable ASCII characters in code point order, from space (32) to "~"
\* (126), without the grave accent (96), which a TLA+ string cannot hold.
Printable ==
  <<" ", "!", "\"", "#", "$", "%", "&", "'", "(", ")", "*", "+", ",", "-", ".", "/",
    "0", "1", "2", "3", "4", "5", "6", "7", "8", "9", ":", ";", "<", "=", ">", "?",
    "@", "A", "B", "C", "D", "E", "F", "G", "H", "I", "J", "K", "L", "M", "N", "O",
    "P", "Q", "R", "S", "T", "U", "V", "W", "X", "Y", "Z", "[", "\\", "]", "^", "_",
    "a", "b", "c", "d", "e", "f", "g", "h", "i", "j", "k", "l", "m", "n", "o",
    "p", "q", "r", "s", "t", "u", "v", "w", "x", "y", "z", "{", "|", "}", "~">>

\* ord(c)
Ord(c) ==
  IF c = "\t" THEN 9
  ELSE IF c = "\n" THEN 10
  ELSE IF c = "\r" THEN 13
  ELSE LET i == CHOOSE j \in 1..Len(Printable) : Printable[j] = c
       IN IF i <= 64 THEN 31 + i ELSE 32 + i

\* c.isspace()
IsSpace(c) == c \in {" ", "\t", "\n", "\r"}

\* c is an ASCII decimal digit
IsDigit(c) == c \in {"0", "1", "2", "3", "4", "5", "6", "7", "8", "9"}

DigitVal(c) == Ord(c) - 48

\* c.lower()
LowerChar(c) ==
  IF Ord(c) >= 65 /\ Ord(c) <= 90 THEN Printable[Ord(c)] ELSE c

\* s.lower()
Lower(s) == [i \in 1..Len(s) |-> LowerChar(s[i])]

RECURSIVE LStrip(_)
LStrip(s) == IF s # <<>> /\ IsSpace(Head(s)) THEN LStrip(Tail(s)) ELSE s

RECURSIVE RStrip(_)
RStrip(s) ==
  IF s # <<>> /\ IsSpace(s[Len(s)]) THEN RStrip(SubSeq(s, 1, Len(s) - 1)) ELSE s

\* s.strip()
Strip(s) == RStrip(LStrip(s))

\* a < b for two str: code point order, a proper prefix first
RECURSIVE StrLess(_, _)
StrLess(a, b) ==
  IF b = <<>> THEN FALSE
  ELSE IF a = <<>> THEN TRUE
  ELSE IF Head(a) # Head(b) THEN Ord(Head(a)) < Ord(Head(b))
  ELSE StrLess(Tail(a), Tail(b))

\* sorted(S) for a set of str
RECURSIVE Sorted(_)
Sorted(S) ==
  IF S = {} THEN <<>>
  ELSE LET m == CHOOSE x \in S : \A y \in S \ {x} : StrLess(x, y)
       IN <<m>> \o Sorted(S \ {m})

Id == <<"i", "d">>

----------------------------------------------------------------------------
(* Python values *)

PyStr(s) == [t |-> "str", s |-> s]
PyInt(n) == [t |-> "int", n |-> n]
PyBool(b) == [t |-> "bool", b |-> b]
PyNone == [t |-> "none"]
PyDict(items) == [t |-> "dict", items |-> items]
PyList(items) == [t |-> "list", items |-> items]

\* The float sign * coef * 10^exp, coef without a trailing zero.  It stands for
\* the double nearest to it, which is faithful while coef has at most 15 digits
\* and the magnitude is inside the double range: repr() then gives back these
\* digits and float() of them the same double.
RECURSIVE Normal(_, _, _)
Normal(sign, coef, exp) ==
  IF coef = 0 THEN [t |-> "float", cls |-> "finite", sign |-> sign, coef |-> 0, exp |-> 0]
  ELSE IF coef % 10 = 0 THEN Normal(sign, coef \div 10, exp + 1)
  ELSE [t |-> "float", cls |-> "finite", sign |-> sign, coef |-> coef, exp |-> exp]

PyFloat(sign, coef, exp) == Normal(sign, coef, exp)
PyInf(sign) == [t |-> "float", cls |-> "inf", sign |-> sign, coef |-> 0, exp |-> 0]
PyNaN == [t |-> "float", cls |-> "nan", sign |-> 1, coef |-> 0, exp |-> 0]

Ok(v) == [ok |-> TRUE, val |-> v]
Raise(exc, msg) == [ok |-> FALSE, exc |-> exc, msg |-> msg]

RECURSIVE Pow10(_)
Pow10(n) == IF n = 0 THEN 1 ELSE 10 * Pow10(n - 1)

\* The decimal digits of a natural number.
RECURSIVE Digits(_)
Digits(n) ==
  IF n < 10 THEN <<Printable[17 + n]>>
  ELSE Digits(n \div 10) \o <<Printable[17 + (n % 10)]>>

RECURSIVE Zeros(_)
Zeros(n) == IF n <= 0 THEN <<>> ELSE <<"0">> \o Zeros(n - 1)

\* str(n) for an int
IntStr(n) == IF n < 0 THEN <<"-">> \o Digits(-n) ELSE Digits(n)

\* repr(f) for a float: the shortest digits that give the double back, in
\* fixed notation while the decimal point falls in -4 < point <= 16, else in
\* exponent notation with at least two exponent digits.
FloatRepr(f) ==
  LET sg == IF f.sign < 0 THEN <<"-">> ELSE <<>>
      ds == Digits(f.coef)
      n == Len(ds)
      point == n + f.exp
      e10 == point - 1
      ed == Digits(IF e10 < 0 THEN -e10 ELSE e10)
  IN IF f.cls = "nan" THEN <<"n", "a", "n">>
     ELSE IF f.cls = "inf" THEN sg \o <<"i", "n", "f">>
     ELSE IF f.coef = 0 THEN sg \o <<"0", ".", "0">>
     ELSE IF point > 16 \/ point < -3
       THEN sg \o <<ds[1]>>
            \o (IF n > 1 THEN <<".">> \o SubSeq(ds, 2, n) ELSE <<>>)
            \o <<"e", IF e10 < 0 THEN "-" ELSE "+">>
            \o (IF Len(ed) < 2 THEN <<"0">> ELSE <<>>) \o ed
     ELSE IF point <= 0 THEN sg \o <<"0", ".">> \o Zeros(-point) \o ds
     ELSE IF point >= n THEN sg \o ds \o Zeros(point - n) \o <<".", "0">>
     ELSE sg \o SubSeq(ds, 1, point) \o <<".">> \o SubSeq(ds, point + 1, n)

----------------------------------------------------------------------------
(* int(s) and float(s) on a stripped, non-empty str *)

\* digit ("_"? digit)*: the digit groups Python accepts in numeric literals
IsDigitPart(s) ==
  /\ s # <<>>
  /\ IsDigit(s[1]) /\ IsDigit(s[Len(s)])
  /\ \A i \in 1..Len(s) :
       \/ IsDigit(s[i])
       \/ s[i] = "_" /\ IsDigit(s[i - 1]) /\ IsDigit(s[i + 1])

\* the digits of a digit part, its underscores dropped
OnlyDigits(s) == SelectSeq(s, IsDigit)

RECURSIVE DigitsValue(_)
DigitsValue(s) ==
  IF s = <<>> THEN 0 ELSE 10 * DigitsValue(SubSeq(s, 1, Len(s) - 1)) + DigitVal(s[Len(s)])

HasSign(s) == s # <<>> /\ s[1] \in {"+", "-"}
SignOf(s) == IF s # <<>> /\ s[1] = "-" THEN -1 ELSE 1
Unsigned(s) == IF HasSign(s) THEN Tail(s) ELSE s

\* int(s2): an optional sign and a digit part, base 10
IsIntText(s) == IsDigitPart(Unsigned(s))
IntValue(s) == SignOf(s) * DigitsValue(OnlyDigits(Unsigned(s)))

\* The first position of a character of set cs in s, or 0.
FirstOf(s, cs) ==
  IF \E i \in 1..Len(s) : s[i] \in cs
  THEN CHOOSE i \in 1..Len(s) : s[i] \in cs /\ \A j \in 1..(i - 1) : s[j] \notin cs
  ELSE 0

\* The parts of a decimal literal: mantissa before the first e/E, split at the
\* first point, and the exponent after it.
FloatParts(s) ==
  LET u == Unsigned(s)
      e == FirstOf(u, {"e", "E"})
      mant == IF e = 0 THEN u ELSE SubSeq(u, 1, e - 1)
      expo == IF e = 0 THEN <<>> ELSE SubSeq(u, e + 1, Len(u))
      p == FirstOf(mant, {"."})
  IN [hasExp |-> e # 0, expo |-> expo, hasPoint |-> p # 0,
      ipart |-> IF p = 0 THEN mant ELSE SubSeq(mant, 1, p - 1),
      fpart |-> IF p = 0 THEN <<>> ELSE SubSeq(mant, p + 1, Len(mant))]

IsDecimalText(s) ==
  LET q == FloatParts(s)
  IN /\ \/ IsDigitPart(q.ipart) /\ (q.fpart = <<>> \/ IsDigitPart(q.fpart))
        \/ q.ipart = <<>> /\ q.hasPoint /\ IsDigitPart(q.fpart)
     /\ q.hasExp => IsDigitPart(Unsigned(q.expo))

IsInfText(s) ==
  Lower(Unsigned(s)) \in {<<"i", "n", "f">>, <<"i", "n", "f", "i", "n", "i", "t", "y">>}

IsNanText(s) == Lower(Unsigned(s)) = <<"n", "a", "n">>

\* float(s2) succeeds
IsFloatText(s) == IsInfText(s) \/ IsNanText(s) \/ IsDecimalText(s)

FloatValue(s) ==
  IF IsNanText(s) THEN PyNaN
  ELSE IF IsInfText(s) THEN PyInf(SignOf(s))
  ELSE LET q == FloatParts(s)
           id == OnlyDigits(q.ipart)
           fd == OnlyDigits(q.fpart)
           x == IF q.hasExp
                THEN SignOf(q.expo) * DigitsValue(OnlyDigits(Unsigned(q.expo)))
                ELSE 0
       IN PyFloat(SignOf(s), DigitsValue(id \o fd), x - Len(fd))

----------------------------------------------------------------------------
(* ScalarCoder *)

\* maybe_parse_scalar returning the trimmed text where no probe matches: what
\* maybe_parse_scalar must not be.
maybe_parse_scalar_trimmed(s) ==
  IF s.t # "str"
  THEN Raise("AttributeError", "'NoneType' object has no attribute 'strip'")
  ELSE LET s2 == Strip(s.s)
           low == Lower(s2)
       IN IF s2 = <<>> THEN Ok(PyStr(<<>>))
          ELSE IF IsIntText(s2) THEN Ok(PyInt(IntValue(s2)))
          ELSE IF IsFloatText(s2) THEN Ok(FloatValue(s2))
          ELSE IF low = <<"t", "r", "u", "e">> THEN Ok(PyBool(TRUE))
          ELSE IF low = <<"f", "a", "l", "s", "e">> THEN Ok(PyBool(FALSE))
          ELSE Ok(PyStr(s2))

\* maybe_parse_scalar(s).  None has no strip(): an AttributeError.
maybe_parse_scalar(s) ==
  IF s.t # "str"
  THEN Raise("AttributeError", "'NoneType' object has no attribute 'strip'")
  ELSE LET s2 == Strip(s.s)
           low == Lower(s2)
       IN IF s2 = <<>> THEN Ok(PyStr(<<>>))
          ELSE IF IsIntText(s2) THEN Ok(PyInt(IntValue(s2)))
          ELSE IF IsFloatText(s2) THEN Ok(FloatValue(s2))
          ELSE IF low = <<"t", "r", "u", "e">> THEN Ok(PyBool(TRUE))
          ELSE IF low = <<"f", "a", "l", "s", "e">> THEN Ok(PyBool(FALSE))
          ELSE Ok(s)

\* What csv.writer writes for a cell value: '' for None, the str itself, and
\* str(value) for the rest.
CellText(v) ==
  IF v.t = "none" THEN <<>>
  ELSE IF v.t = "str" THEN v.s
  ELSE IF v.t = "int" THEN IntStr(v.n)
  ELSE IF v.t = "bool"
    THEN (IF v.b THEN <<"T", "r", "u", "e">> ELSE <<"F", "a", "l", "s", "e">>)
  ELSE FloatRepr(v)

----------------------------------------------------------------------------
(* dict operations (items in insertion order) *)

DictHas(items, k) == \E i \in 1..Len(items) : items[i].k = k

\* d.get(k, default)
DictGet(items, k, default) ==
  IF DictHas(items, k)
  THEN items[CHOOSE i \in 1..Len(items) : items[i].k = k].v
  ELSE default

\* d[k] = v: an existing key keeps its place, a new one goes last
DictSet(items, k, v) ==
  IF DictHas(items, k)
  THEN [i \in 1..Len(items) |-> IF items[i].k = k THEN [k |-> k, v |-> v] ELSE items[i]]
  ELSE Append(items, [k |-> k, v |-> v])

DictKeys(items) == {items[i].k : i \in 1..Len(items)}

----------------------------------------------------------------------------
(* FieldInference *)

\* The keys of the entries of data that are not records, in iteration order.
NonRecords(data) == SelectSeq(data.items, LAMBDA e : e.v.t # "dict")

NotAnObject(k) ==
  [ok |-> FALSE, exc |-> "ValueError", msg |-> "Record under key is not an object/dict.",
   key |-> k]

\* infer_fields_from_json without keys.discard("id"): what it must not be.
infer_fields_from_json_keeps_id(data) ==
  IF NonRecords(data) # <<>> THEN NotAnObject(NonRecords(data)[1].k)
  ELSE LET keys == UNION {DictKeys(data.items[i].v.items) : i \in 1..Len(data.items)}
       IN Ok(<<Id>> \o Sorted(keys))

\* infer_fields_from_json(data)
infer_fields_from_json(data) ==
  IF NonRecords(data) # <<>> THEN NotAnObject(NonRecords(data)[1].k)
  ELSE LET keys == UNION {DictKeys(data.items[i].v.items) : i \in 1..Len(data.items)}
       IN Ok(<<Id>> \o Sorted(keys \ {Id}))

\* infer_fields_from_csv returning the header as it stands: what it must not be.
infer_fields_from_csv_as_is(fieldnames) ==
  IF fieldnames.t = "none" \/ fieldnames.items = <<>>
  THEN Raise("ValueError", "CSV has no headers.")
  ELSE IF \A i \in 1..Len(fieldnames.items) : fieldnames.items[i] # Id
  THEN Raise("ValueError", "CSV must have an 'id' header column.")
  ELSE Ok(fieldnames.items)

\* infer_fields_from_csv(fieldnames): fieldnames is a list of str, or None
infer_fields_from_csv(fieldnames) ==
  IF fieldnames.t = "none" \/ fieldnames.items = <<>>
  THEN Raise("ValueError", "CSV has no headers.")
  ELSE IF \A i \in 1..Len(fieldnames.items) : fieldnames.items[i] # Id
  THEN Raise("ValueError", "CSV must have an 'id' header column.")
  ELSE Ok(<<Id>> \o SelectSeq(fieldnames.items, LAMBDA h : h # Id))

----------------------------------------------------------------------------
(* csv.writer and csv.reader, default ("excel") dialect: delimiter ',',      *)
(* quotechar '"', doublequote, QUOTE_MINIMAL, lineterminator '\r\n'          *)

NeedsQuote(c) == c \in {",", "\"", "\r", "\n"}

RECURSIVE DoubleQuotes(_)
DoubleQuotes(s) ==
  IF s = <<>> THEN <<>>
  ELSE (IF Head(s) = "\"" THEN <<"\"", "\"">> ELSE <<Head(s)>>) \o DoubleQuotes(Tail(s))

\* A writer that never quotes: what WriteField must not be.
WriteFieldBare(s, alone) == s

\* One field as the writer emits it; alone marks the only field of its row.
WriteField(s, alone) ==
  IF (\E i \in 1..Len(s) : NeedsQuote(s[i])) \/ (alone /\ s = <<>>)
  THEN <<"\"">> \o DoubleQuotes(s) \o <<"\"">>
  ELSE s

RECURSIVE JoinFields(_, _)
JoinFields(cells, alone) ==
  IF cells = <<>> THEN <<>>
  ELSE WriteField(CellText(Head(cells)), alone)
       \o (IF Len(cells) > 1 THEN <<",">> ELSE <<>>)
       \o JoinFields(Tail(cells), alone)

\* writer.writerow(cells), cells a sequence of Python values
WriteRow(cells) == JoinFields(cells, Len(cells) = 1) \o <<"\r", "\n">>

\* The reader's automaton (Modules/_csv.c, parse_process_char).  p is
\* [st, field, fields]; c is a character, or "EOL" at the end of each line.
IsNewline(c) == c \in {"\n", "\r"}

SaveField(p, st) == [st |-> st, field |-> <<>>, fields |-> Append(p.fields, p.field)]
AddChar(p, c, st) == [st |-> st, field |-> Append(p.field, c), fields |-> p.fields]
Goto(p, st) == [p EXCEPT !.st = st]

AfterLine(c) == IF c = "EOL" THEN "START_RECORD" ELSE "EAT_CRNL"

StartField(p, c) ==
  IF IsNewline(c) \/ c = "EOL" THEN SaveField(p, AfterLine(c))
  ELSE IF c = "\"" THEN Goto(p, "IN_QUOTED_FIELD")
  ELSE IF c = "," THEN SaveField(p, "START_FIELD")
  ELSE AddChar(p, c, "IN_FIELD")

ProcessChar(p, c) ==
  CASE p.st = "START_RECORD" ->
         IF c = "EOL" THEN p
         ELSE IF IsNewline(c) THEN Goto(p, "EAT_CRNL")
         ELSE StartField(p, c)
    [] p.st = "START_FIELD" -> StartField(p, c)
    [] p.st = "IN_FIELD" ->
         IF IsNewline(c) \/ c = "EOL" THEN SaveField(p, AfterLine(c))
         ELSE IF c = "," THEN SaveField(p, "START_FIELD")
         ELSE AddChar(p, c, "IN_FIELD")
    [] p.st = "IN_QUOTED_FIELD" ->
         IF c = "EOL" THEN p
         ELSE IF c = "\"" THEN Goto(p, "QUOTE_IN_QUOTED_FIELD")
         ELSE AddChar(p, c, "IN_QUOTED_FIELD")
    [] p.st = "QUOTE_IN_QUOTED_FIELD" ->
         IF c = "\"" THEN AddChar(p, c, "IN_QUOTED_FIELD")
         ELSE IF c = "," THEN SaveField(p, "START_FIELD")
         ELSE IF IsNewline(c) \/ c = "EOL" THEN SaveField(p, AfterLine(c))
         ELSE AddChar(p, c, "IN_FIELD")
    [] p.st = "EAT_CRNL" ->
         IF c = "EOL" THEN Goto(p, "START_RECORD") ELSE p

\* io.StringIO(text, newline="") ends a line after '\n', after '\r\n' and after
\* a '\r' that no '\n' follows, and at the end of the text.
EndsLine(text, i) ==
  \/ text[i] = "\n"
  \/ text[i] = "\r" /\ (i = Len(text) \/ text[i + 1] # "\n")
  \/ i = Len(text)

\* The lines the reader iterates over, each with its line ending.
Lines(text) ==
  LET ends == {i \in 1..Len(text) : EndsLine(text, i)}
      nth(k) == CHOOSE e \in ends : Cardinality({x \in ends : x <= e}) = k
  IN [k \in 1..Cardinality(ends) |->
        SubSeq(text, IF k = 1 THEN 1 ELSE nth(k - 1) + 1, nth(k))]

\* The characters of one line through the automaton, then the end of line.
RECURSIVE FeedLine(_, _)
FeedLine(p, line) ==
  IF line = <<>> THEN ProcessChar(p, "EOL")
  ELSE FeedLine(ProcessChar(p, Head(line)), Tail(line))

\* Reader_iternext over the remaining lines: a row is complete when the
\* automaton is back at START_RECORD after a line; at the end of the input a
\* pending field (an unclosed quote) is a last row.
RECURSIVE ReadLines(_, _, _)
ReadLines(lines, p, rows) ==
  IF lines = <<>>
  THEN (IF p.field # <<>> \/ p.st = "IN_QUOTED_FIELD"
        THEN Append(rows, Append(p.fields, p.field))
        ELSE rows)
  ELSE LET q == FeedLine(p, Head(lines))
       IN IF q.st = "START_RECORD"
          THEN ReadLines(Tail(lines), [q EXCEPT !.fields = <<>>], Append(rows, q.fields))
          ELSE ReadLines(Tail(lines), q, rows)

\* list(csv.reader(io.StringIO(text, newline="")))
CsvReader(text) ==
  ReadLines(Lines(text), [st |-> "START_RECORD", field |-> <<>>, fields |-> <<>>], <<>>)

\* csv.DictReader: the first row is the header (None when there is no row).
Fieldnames(rows) == IF rows = <<>> THEN PyNone ELSE PyList(rows[1])

\* The data rows DictReader yields: the rows after the header that are not [].
DataRows(rows) ==
  IF rows = <<>> THEN <<>> ELSE SelectSeq(Tail(rows), LAMBDA r : r # <<>>)

\* The dict DictReader makes of a row: dict(zip(fieldnames, row)), then None
\* (restval) under each header the row is too short for.  Cells beyond the
\* header go under the key None (restkey), which no lookup below asks for.
RECURSIVE RowDictFrom(_, _, _, _)
RowDictFrom(fieldnames, row, i, d) ==
  IF i > Len(fieldnames) THEN d
  ELSE RowDictFrom(fieldnames, row, i + 1,
         DictSet(d, fieldnames[i], IF i <= Len(row) THEN PyStr(row[i]) ELSE PyNone))

RowDict(fieldnames, row) == RowDictFrom(fieldnames, row, 1, <<>>)

----------------------------------------------------------------------------
(* JsonToCsvEncoder and CsvToJsonDecoder *)

StrCells(names) == [i \in 1..Len(names) |-> PyStr(names[i])]

\* The row json_to_csv_text builds for one entry.
EntryRow(key, record, fields) ==
  [i \in 1..Len(fields) |->
     IF fields[i] = Id THEN PyStr(key) ELSE DictGet(record.items, fields[i], PyStr(<<>>))]

RECURSIVE WriteEntries(_, _)
WriteEntries(entries, fields) ==
  IF entries = <<>> THEN <<>>
  ELSE WriteRow(EntryRow(Head(entries).k, Head(entries).v, fields))
       \o WriteEntries(Tail(entries), fields)

\* json_to_csv_text(data, fields)
json_to_csv_text(data, fields) ==
  IF NonRecords(data) # <<>> THEN NotAnObject(NonRecords(data)[1].k)
  ELSE Ok(WriteRow(StrCells(fields)) \o WriteEntries(data.items, fields))

\* (row.get("id") or "").strip()
RawId(d) ==
  LET v == DictGet(d, Id, PyNone) IN IF v.t = "str" THEN Strip(v.s) ELSE <<>>

\* A decoder that infers types whatever the flag: what Decoded must not be.
DecodedAlways(val, infer_types) == maybe_parse_scalar(val)

\* maybe_parse_scalar(val) if infer_types else val
Decoded(val, infer_types) == IF infer_types THEN maybe_parse_scalar(val) ELSE Ok(val)

\* The record of one row: under every non-id field, in order, the cell or its
\* inferred scalar.  The first failing maybe_parse_scalar ends it.
RECURSIVE RowRecord(_, _, _, _)
RECURSIVE PutField(_, _, _, _, _)
RowRecord(fields, d, infer_types, record) ==
  IF fields = <<>> THEN Ok(PyDict(record))
  ELSE IF Head(fields) = Id THEN RowRecord(Tail(fields), d, infer_types, record)
  ELSE PutField(fields, d, infer_types, record,
                Decoded(DictGet(d, Head(fields), PyStr(<<>>)), infer_types))

\* record[field] = ..., dec being the outcome of the right-hand side
PutField(fields, d, infer_types, record, dec) ==
  IF ~dec.ok THEN dec
  ELSE RowRecord(Tail(fields), d, infer_types, DictSet(record, Head(fields), dec.val))

\* One turn of the loop over the rows: the id check, then data[id_key] = record
PutRow(data, raw_id, rec) ==
  IF raw_id = <<>> THEN Raise("ValueError", "CSV row missing id.")
  ELSE IF ~rec.ok THEN rec
  ELSE Ok(DictSet(data, raw_id, rec.val))

DecodeRow(fields, d, infer_types, data) ==
  PutRow(data, RawId(d), RowRecord(fields, d, infer_types, <<>>))

\* The loop of csv_text_to_json over the data rows, data being the dict built
\* so far.  The first failing row ends it.
RECURSIVE DecodeRows(_, _, _, _, _)
RECURSIVE DecodeRest(_, _, _, _, _)
DecodeRows(fieldnames, fields, rows, infer_types, data) ==
  IF rows = <<>> THEN Ok(PyDict(data))
  ELSE DecodeRest(fieldnames, fields, Tail(rows), infer_types,
                  DecodeRow(fields, RowDict(fieldnames, Head(rows)), infer_types, data))

DecodeRest(fieldnames, fields, rows, infer_types, step) ==
  IF ~step.ok THEN step ELSE DecodeRows(fieldnames, fields, rows, infer_types, step.val)

\* [h for h in file_fields if h not in (reader.fieldnames or [])]
Missing(file_fields, fieldnames) ==
  SelectSeq(file_fields, LAMBDA h : \A i \in 1..Len(fieldnames) : fieldnames[i] # h)

\* csv_text_to_json from the header check on, given reader.fieldnames, the
\* outcome of infer_fields_from_csv on them and the rows the reader yields
DecodeTable(fieldnames, file_fields, rows, infer_types) ==
  IF ~file_fields.ok THEN file_fields
  ELSE IF Missing(file_fields.val, fieldnames.items) # <<>>
    THEN Raise("ValueError", "CSV missing required headers")
  ELSE DecodeRows(fieldnames.items, file_fields.val, rows, infer_types, <<>>)

DecodeReader(rows, infer_types) ==
  DecodeTable(Fieldnames(rows), infer_fields_from_csv(Fieldnames(rows)),
              DataRows(rows), infer_types)

\* csv_text_to_json(text, fields, infer_types).  The fields passed in are not
\* read: the header of the text decides.
csv_text_to_json(text, fields, infer_types) == DecodeReader(CsvReader(text), infer_types)

----------------------------------------------------------------------------
(* RoundtripVerifier *)

IsNumber(v) == v.t \in {"int", "float", "bool"}

\* A number as a float record, for comparison across int, float and bool.
AsFloat(v) ==
  IF v.t = "float" THEN v
  ELSE IF v.t = "bool" THEN PyFloat(1, IF v.b THEN 1 ELSE 0, 0)
  ELSE PyFloat(IF v.n < 0 THEN -1 ELSE 1, IF v.n < 0 THEN -v.n ELSE v.n, 0)

\* a == b for two numbers: nan equals nothing, -0.0 equals 0.0
NumEq(a, b) ==
  LET x == AsFloat(a)
      y == AsFloat(b)
  IN /\ x.cls # "nan" /\ y.cls # "nan"
     /\ x.cls = y.cls
     /\ x.coef = y.coef /\ x.exp = y.exp
     /\ (x.sign = y.sign \/ (x.cls = "finite" /\ x.coef = 0))

\* a == b for two Python values that are not the same object
RECURSIVE PyEq(_, _)
PyEq(a, b) ==
  IF IsNumber(a) /\ IsNumber(b) THEN NumEq(a, b)
  ELSE IF a.t # b.t THEN FALSE
  ELSE IF a.t = "str" THEN a.s = b.s
  ELSE IF a.t = "none" THEN TRUE
  ELSE /\ DictKeys(a.items) = DictKeys(b.items)
       /\ Len(a.items) = Len(b.items)
       /\ \A i \in 1..Len(a.items) :
            PyEq(a.items[i].v, DictGet(b.items, a.items[i].k, PyNone))

\* The try block of cmd_verify: fields, csv_text, roundtrip.
EncodeDecode(csv_text, fields, infer_types) ==
  IF ~csv_text.ok THEN csv_text ELSE csv_text_to_json(csv_text.val, fields, infer_types)

RoundtripWith(original, fields, infer_types) ==
  IF ~fields.ok THEN fields
  ELSE EncodeDecode(json_to_csv_text(original, fields.val), fields.val, infer_types)

Roundtrip(original, infer_types) ==
  RoundtripWith(original, infer_fields_from_json(original), infer_types)

----------------------------------------------------------------------------
(* Files.  A file holds [fmt |-> "bytes"] (bytes that are not UTF-8),       *)
(* [fmt |-> "csv", text |-> chars] or [fmt |-> "json", value |-> v], a JSON *)
(* document in the layout to-json writes.  No CSV text of the model is a    *)
(* JSON document.                                                           *)

RECURSIVE Spaces(_)
Spaces(n) == IF n <= 0 THEN <<>> ELSE <<" ">> \o Spaces(n - 1)

RECURSIVE JsonEscape(_)
JsonEscape(s) ==
  IF s = <<>> THEN <<>>
  ELSE (CASE Head(s) = "\"" -> <<"\\", "\"">>
          [] Head(s) = "\\" -> <<"\\", "\\">>
          [] Head(s) = "\n" -> <<"\\", "n">>
          [] Head(s) = "\r" -> <<"\\", "r">>
          [] Head(s) = "\t" -> <<"\\", "t">>
          [] OTHER -> <<Head(s)>>) \o JsonEscape(Tail(s))

JsonString(s) == <<"\"">> \o JsonEscape(s) \o <<"\"">>

JsonFloat(f) ==
  IF f.cls = "nan" THEN <<"N", "a", "N">>
  ELSE IF f.cls = "inf"
    THEN (IF f.sign < 0 THEN <<"-">> ELSE <<>>) \o <<"I", "n", "f", "i", "n", "i", "t", "y">>
  ELSE FloatRepr(f)

\* json.dumps(v, indent=4, ensure_ascii=False), v nested at the given depth
RECURSIVE JsonDumps(_, _)
RECURSIVE JsonMembers(_, _, _)
JsonMembers(v, i, depth) ==
  IF i > Len(v.items) THEN <<>>
  ELSE <<"\n">> \o Spaces(4 * depth)
       \o (IF v.t = "dict"
           THEN JsonString(v.items[i].k) \o <<":", " ">> \o JsonDumps(v.items[i].v, depth)
           ELSE JsonDumps(v.items[i], depth))
       \o (IF i < Len(v.items) THEN <<",">> ELSE <<>>)
       \o JsonMembers(v, i + 1, depth)

JsonDumps(v, depth) ==
  CASE v.t = "dict" ->
         IF v.items = <<>> THEN <<"{", "}">>
         ELSE <<"{">> \o JsonMembers(v, 1, depth + 1) \o <<"\n">> \o Spaces(4 * depth) \o <<"}">>
    [] v.t = "list" ->
         IF v.items = <<>> THEN <<"[", "]">>
         ELSE <<"[">> \o JsonMembers(v, 1, depth + 1) \o <<"\n">> \o Spaces(4 * depth) \o <<"]">>
    [] v.t = "str" -> JsonString(v.s)
    [] v.t = "int" -> IntStr(v.n)
    [] v.t = "float" -> JsonFloat(v)
    [] v.t = "bool" -> IF v.b THEN <<"t", "r", "u", "e">> ELSE <<"f", "a", "l", "s", "e">>
    [] v.t = "none" -> <<"n", "u", "l", "l">>

\* What to-json writes: json.dumps(data, indent=4, ensure_ascii=False) + "\n"
JsonFile(data) == [fmt |-> "json", value |-> data]
CsvFile(text) == [fmt |-> "csv", text |-> text]
Bytes == [fmt |-> "bytes"]

\* The text of a file read as UTF-8.
read_text(content) ==
  CASE content.fmt = "bytes" -> Raise("UnicodeDecodeError", "invalid start byte")
    [] content.fmt = "csv" -> Ok(content.text)
    [] content.fmt = "json" -> Ok(JsonDumps(content.value, 0) \o <<"\n">>)

\* json.loads of the text of a file.
json_loads(content) ==
  IF content.fmt = "json" THEN Ok(content.value)
  ELSE Raise("JSONDecodeError", "Expecting value")

\* The file system: every path is absent, a directory or a file.  "d/c" lies
\* in "d"; the other paths lie in the working directory.
Paths == {"a", "b", "d", "d/c"}

Absent == [kind |-> "absent"]
Dir == [kind |-> "dir"]
File(content) == [kind |-> "file", content |-> content]

InDir(f, p) == p # "d/c" \/ f["d"].kind = "dir"

\* Path.exists(), Path.is_file(), Path.is_dir()
exists(f, p) == InDir(f, p) /\ f[p].kind # "absent"
is_file(f, p) == InDir(f, p) /\ f[p].kind = "file"
is_dir(f, p) == InDir(f, p) /\ f[p].kind = "dir"

\* out_path.parent.mkdir(parents=True, exist_ok=True)
mkdir_parent(f, p) ==
  IF p # "d/c" \/ f["d"].kind = "dir" THEN Ok(f)
  ELSE IF f["d"].kind = "absent" THEN Ok([f EXCEPT !["d"] = Dir])
  ELSE Raise("FileExistsError", "File exists")

\* open(p, "w") and write: the file is created or replaced
write_file(f, p, content) == [f EXCEPT ![p] = File(content)]

----------------------------------------------------------------------------
(* The commands.  Each gives the file system it leaves, its exit code and   *)
(* what it reports: the error line it prints, or "ok".  An exception no     *)
(* handler catches ends the process with a traceback and exit code 1.       *)
(* --verbose only prints more and is left out.                              *)

Exit(f, code, msg) == [fs |-> f, exit |-> code, msg |-> msg, exc |-> "none"]
Traceback(f, e) == [fs |-> f, exit |-> 1, msg |-> "Traceback", exc |-> e.exc]

\* cmd_ping
cmd_ping(f) == Exit(f, 0, "pong")

\* cmd_to_csv from the write on: the file is opened, then json_to_csv_text
\* runs, and an exception it raises leaves the file empty.
WriteCsv(f, out_path, csv_text) ==
  IF ~csv_text.ok THEN Traceback(write_file(f, out_path, CsvFile(<<>>)), csv_text)
  ELSE Exit(write_file(f, out_path, CsvFile(csv_text.val)), 0, "ok")

ToCsvWith(f, out_path, data, fields, made) ==
  IF ~fields.ok THEN Exit(f, 2, fields.msg)
  ELSE IF ~made.ok THEN Exit(f, 2, "failed to write output file")
  ELSE WriteCsv(made.val, out_path, json_to_csv_text(data, fields.val))

ToCsvFrom(f, out_path, text, data) ==
  IF ~text.ok THEN Exit(f, 2, "failed to decode input file as UTF-8")
  ELSE IF ~data.ok THEN Exit(f, 2, "invalid JSON")
  ELSE IF data.val.t # "dict" THEN Exit(f, 2, "expected JSON root to be an object/dict")
  ELSE ToCsvWith(f, out_path, data.val, infer_fields_from_json(data.val),
                 mkdir_parent(f, out_path))

\* cmd_to_csv(args)
cmd_to_csv(f, in_path, out_path, force) ==
  IF ~exists(f, in_path) \/ ~is_file(f, in_path)
    THEN Exit(f, 2, "input JSON not found")
  ELSE IF exists(f, out_path) /\ is_dir(f, out_path)
    THEN Exit(f, 2, "output path is a directory")
  ELSE IF exists(f, out_path) /\ ~force
    THEN Exit(f, 2, "output already exists")
  ELSE ToCsvFrom(f, out_path, read_text(f[in_path].content), json_loads(f[in_path].content))

\* cmd_to_json from the decoding on, f being the file system after the mkdir
WriteJson(f, out_path, data) ==
  IF ~data.ok /\ data.exc = "ValueError" THEN Exit(f, 2, data.msg)
  ELSE IF ~data.ok THEN Traceback(f, data)
  ELSE Exit(write_file(f, out_path, JsonFile(data.val)), 0, "ok")

ToJsonWith(f, out_path, text, fields, infer_types) ==
  IF ~fields.ok THEN Exit(f, 2, fields.msg)
  ELSE WriteJson(f, out_path, csv_text_to_json(text, fields.val, infer_types))

ToJsonRows(f, out_path, text, rows, infer_types) ==
  IF rows = <<>> THEN Exit(f, 2, "CSV has no headers (file is empty).")
  ELSE ToJsonWith(f, out_path, text, infer_fields_from_csv(PyList(rows[1])), infer_types)

ToJsonFrom(f, out_path, text, infer_types) ==
  IF ~text.ok THEN Exit(f, 2, "failed to decode input file as UTF-8")
  ELSE ToJsonRows(f, out_path, text.val, CsvReader(text.val), infer_types)

\* cmd_to_json from the mkdir on: the parent directory of the output is made
\* before the input is read
ToJsonMade(f, in_path, out_path, made, infer_types) ==
  IF ~made.ok THEN Traceback(f, made)
  ELSE ToJsonFrom(made.val, out_path, read_text(f[in_path].content), infer_types)

\* cmd_to_json(args)
cmd_to_json(f, in_path, out_path, force, infer_types) ==
  IF ~exists(f, in_path) \/ ~is_file(f, in_path)
    THEN Exit(f, 2, "input CSV not found")
  ELSE IF exists(f, out_path) /\ is_dir(f, out_path)
    THEN Exit(f, 2, "output path is a directory")
  ELSE IF exists(f, out_path) /\ ~force
    THEN Exit(f, 2, "output already exists")
  ELSE ToJsonMade(f, in_path, out_path, mkdir_parent(f, out_path), infer_types)

\* cmd_verify from the comparison on
Verdict(f, original, roundtrip) ==
  IF ~roundtrip.ok /\ roundtrip.exc = "ValueError"
    THEN Exit(f, 2, "verify failed during conversion")
  ELSE IF ~roundtrip.ok THEN Traceback(f, roundtrip)
  ELSE IF PyEq(original, roundtrip.val) THEN Exit(f, 0, "VERIFY: PASS")
  ELSE Exit(f, 1, "VERIFY: FAIL")

VerifyFrom(f, text, original, infer_types) ==
  IF ~text.ok THEN Exit(f, 2, "failed to decode input file as UTF-8")
  ELSE IF ~original.ok THEN Exit(f, 2, "invalid JSON")
  ELSE IF original.val.t # "dict" THEN Exit(f, 2, "expected JSON root to be an object/dict")
  ELSE Verdict(f, original.val, Roundtrip(original.val, infer_types))

\* cmd_verify(args)
cmd_verify(f, in_path, infer_types) ==
  IF ~exists(f, in_path) \/ ~is_file(f, in_path)
    THEN Exit(f, 2, "input JSON not found")
  ELSE VerifyFrom(f, read_text(f[in_path].content), json_loads(f[in_path].content),
                  infer_types)

----------------------------------------------------------------------------
(* The inputs of the model *)

MaxPad == 1
MaxCols == 3
MaxFields == 2
MaxEntries == 2
MaxRows == 2
MaxCmds == 2

\* The sequences of at most n elements of S, and those without a repeat.
SeqsUpTo(S, n) == UNION {[1..m -> S] : m \in 0..n}
DistinctSeqsUpTo(S, n) ==
  {q \in SeqsUpTo(S, n) : \A i, j \in 1..Len(q) : i # j => q[i] # q[j]}

\* Cell texts: a core with up to MaxPad blanks or tabs on either side.
Cores ==
  {<<>>, <<"5">>, <<"-", "7">>, <<"+", "5">>, <<"0", "0", "7">>, <<"1", "_", "0">>,
   <<"1", "_">>, <<"2", ".", "5">>, <<"2", ".", "5", "0">>, <<"1", ".">>, <<".", "5">>,
   <<"1", "e", "3">>, <<"1", "e", "-", "5">>, <<"1", "E", "2", "2">>, <<"-", "0", ".", "0">>,
   <<"1", ".", "0">>, <<"e", "5">>, <<"1", ".", "2", ".", "3">>, <<"0", "x", "1">>,
   <<"5", " ", "5">>, <<"-">>, <<"n", "a", "n">>, <<"i", "n", "f">>,
   <<"-", "I", "n", "f", "i", "n", "i", "t", "y">>, <<"t", "r", "u", "e">>,
   <<"T", "R", "U", "E">>, <<"T", "r", "u", "e">>, <<"F", "a", "l", "s", "e">>,
   <<"f", "a", "l", "s", "e">>, <<"t", "r", "u", "e", "e">>, <<"x">>, <<"T">>}

Blanks == {" ", "\t"}

Cells ==
  {l \o c \o r : c \in Cores, l \in SeqsUpTo(Blanks, MaxPad), r \in SeqsUpTo(Blanks, MaxPad)}

\* Header rows: any names, any order, with repeats; and no header at all.
HeaderNames == {Id, <<"a">>, <<"b">>, <<"I", "D">>}
Headers == {PyList(h) : h \in SeqsUpTo(HeaderNames, MaxCols)} \cup {PyNone}

\* JSON objects for field inference: entries under distinct keys, each a
\* record of fields in any insertion order, or a value that is no record.
DocKeys == {<<"k">>, <<"j">>, <<"a", ",", "b">>}
ShapeNames == {Id, <<"b">>, <<"B">>}

DictOf(keys, vals) == PyDict([i \in 1..Len(keys) |-> [k |-> keys[i], v |-> vals[i]]])

ShapeRecords ==
  {DictOf(n, [i \in 1..Len(n) |-> PyInt(1)]) : n \in DistinctSeqsUpTo(ShapeNames, MaxFields)}

DocsOf(keys, values) ==
  {DictOf(p[1], p[2]) :
     p \in {p \in DistinctSeqsUpTo(keys, MaxEntries) \X SeqsUpTo(values, MaxEntries) :
              Len(p[1]) = Len(p[2])}}

ShapeDocs == DocsOf(DocKeys, ShapeRecords \cup {PyInt(5)})

\* JSON objects for the round trip.  One entry with, under x, an int, a float
\* or a bool and, under y, a float in exponent notation, a float with an
\* integral value or nan; and up to MaxEntries entries, under plain, quoted
\* and padded keys, of records with the same or with different fields.
XVals == {PyInt(-7), PyFloat(1, 25, -1), PyBool(TRUE)}
YVals == {PyFloat(1, 1, 22), PyFloat(1, 1, 0), PyNaN}

TypedRecords ==
  {PyDict(<<>>)}
  \cup {DictOf(<<<<"x">>>>, <<v>>) : v \in XVals}
  \cup {DictOf(<<<<"y">>>>, <<v>>) : v \in YVals}
  \cup {DictOf(<<<<"x">>, <<"y">>>>, <<v, w>>) : v \in XVals, w \in YVals}
  \cup {DictOf(<<<<"y">>, <<"x">>>>, <<w, v>>) : v \in XVals, w \in YVals}

TypedKeys == {<<"k">>, <<"a", ",", "b">>, <<" ", "j">>}
FewRecords ==
  {DictOf(<<<<"x">>, <<"y">>>>, <<PyInt(-7), PyFloat(1, 1, 0)>>),
   DictOf(<<<<"y">>, <<"x">>>>, <<PyFloat(1, 1, 22), PyBool(TRUE)>>),
   DictOf(<<<<"x">>>>, <<PyFloat(1, 25, -1)>>),
   PyDict(<<>>)}

TypedDocs ==
  {DictOf(<<<<"k">>>>, <<r>>) : r \in TypedRecords} \cup DocsOf(TypedKeys, FewRecords)

\* CSV texts: a header and rows of cells for the header's columns, each row
\* cut short at any length, as csv.writer writes them: at most MaxRows rows
\* under the plain headers, at most one under the others.
PlainHeaders == {<<Id, <<"a">>>>, <<<<"a">>, Id>>, <<Id>>}
OtherHeaders ==
  {<<Id, <<"a">>, <<"b">>>>, <<Id, Id, <<"a">>>>, <<Id, <<"a">>, Id>>, <<<<"a">>, <<"b">>>>}
IdCells == {<<"k">>, <<" ", "k", " ">>, <<" ">>}
ValCells == {<<"1">>, <<" ", "x">>}

RowsFor(h) ==
  {q \in SeqsUpTo(IdCells \cup ValCells, Len(h)) :
     \A i \in 1..Len(q) : q[i] \in (IF h[i] = Id THEN IdCells ELSE ValCells)}

RECURSIVE WriteRows(_)
WriteRows(rows) ==
  IF rows = <<>> THEN <<>> ELSE WriteRow(StrCells(Head(rows))) \o WriteRows(Tail(rows))

\* Texts the writer would not produce: nothing, a blank line for a header,
\* blank lines between rows, a quoted header, no final line ending, a row
\* longer than the header.
OddTexts ==
  {<<>>, <<"\r", "\n">>,
   <<"i", "d", ",", "a", "\n", "\n", "k", ",", "1", "\n", "\n">>,
   <<"\"", "i", "d", "\"", ",", "a", "\r", "\n", "k", ",", "\"", "1", ",", "2", "\"">>,
   <<"i", "d", ",", "a", "\r", "\n", "k", ",", "1", ",", "9", "\r", "\n">>}

CsvTexts ==
  OddTexts
  \cup UNION {{WriteRows(<<h>> \o rows) : rows \in SeqsUpTo(RowsFor(h), MaxRows)} :
                h \in PlainHeaders}
  \cup UNION {{WriteRows(<<h>> \o rows) : rows \in SeqsUpTo(RowsFor(h), 1)} :
                h \in OtherHeaders}

\* The files the commands start from.
K == <<"k">>
X == <<"x">>
Y == <<"y">>
One == PyInt(1)
Half == PyFloat(1, 25, -1)
Rec(names, vals) == DictOf(names, vals)

JsonDocs ==
  {DictOf(<<<<"k", "1">>>>, <<Rec(<<X, Y, <<"z">>>>, <<One, Half, PyBool(TRUE)>>)>>),
   DictOf(<<K>>, <<Rec(<<X, Y>>, <<One, Half>>)>>),
   DictOf(<<K, <<"j">>>>, <<Rec(<<Y, X>>, <<Half, One>>), Rec(<<X, Y>>, <<PyInt(-7), One>>)>>),
   DictOf(<<<<" ", "k">>>>, <<Rec(<<X>>, <<One>>)>>),
   DictOf(<<K, <<"j">>>>, <<Rec(<<X>>, <<One>>), Rec(<<Y>>, <<Half>>)>>),
   DictOf(<<K>>, <<Rec(<<Id, X>>, <<PyInt(7), One>>)>>),
   DictOf(<<<<>>>>, <<Rec(<<X>>, <<One>>)>>),
   DictOf(<<K>>, <<Rec(<<X>>, <<PyNaN>>)>>),
   DictOf(<<K>>, <<Rec(<<X>>, <<PyStr(<<"s">>)>>)>>),
   DictOf(<<K, <<"j">>>>, <<Rec(<<X>>, <<One>>), PyInt(5)>>),
   DictOf(<<>>, <<>>),
   PyList(<<PyInt(1), PyInt(2), PyInt(3)>>)}
  \cup {DictOf(<<K>>, <<Rec(<<X>>, <<v>>)>>) : v \in XVals}
  \cup {DictOf(<<K>>, <<Rec(<<X, Y>>, <<v, w>>)>>) : v \in XVals, w \in YVals}

FileTexts ==
  {<<>>,
   WriteRows(<<<<Id, <<"a">>>>, <<K, <<"1">>>>, <<<<" ", "k", " ">>, <<" ", "x">>>>>>),
   WriteRows(<<<<<<"n", "a", "m", "e">>, <<"a", "g", "e">>>>, <<X, <<"1">>>>>>),
   WriteRows(<<<<Id, <<"a">>>>, <<K, <<"1">>>>, <<<<" ">>, <<"2">>>>>>),
   WriteRows(<<<<Id, <<"a">>, <<"b">>>>, <<K, <<"1">>>>>>),
   WriteRows(<<<<Id, Id, <<"a">>>>, <<K, <<"j">>, <<"2", ".", "5">>>>>>)}

Contents == {JsonFile(v) : v \in JsonDocs} \cup {CsvFile(t) : t \in FileTexts} \cup {Bytes}

InitialFiles ==
  {[p \in Paths |->
      CASE p = "a" -> a
        [] p = "b" -> b
        [] p = "d" -> d
        [] p = "d/c" -> Absent] :
     a \in {File(c) : c \in Contents} \cup {Absent},
     b \in {Absent, File(CsvFile(<<"o", "l", "d">>))},
     d \in {Absent, Dir}}

InPaths == {"a", "b"}
OutPaths == {"b", "d", "d/c"}

NoFiles == [p \in Paths |-> Absent]
NoCall == [cmd |-> "none"]
NoResult == [exit |-> 0, msg |-> "none", exc |-> "none"]
Pending == [ok |-> FALSE, exc |-> "pending", msg |-> "not called"]

----------------------------------------------------------------------------
(* The commands over the file system *)

Init ==
  /\ fs \in InitialFiles
  /\ call = NoCall
  /\ ret = NoResult
  /\ ncmds = 0

Done(r) ==
  /\ fs' = r.fs
  /\ ret' = [exit |-> r.exit, msg |-> r.msg, exc |-> r.exc]
  /\ ncmds' = ncmds + 1

CmdPing ==
  /\ ncmds < MaxCmds
  /\ call' = [cmd |-> "ping"]
  /\ Done(cmd_ping(fs))

CmdToCsv ==
  /\ ncmds < MaxCmds
  /\ \E in_path \in InPaths, out_path \in OutPaths, force \in BOOLEAN :
       /\ call' = [cmd |-> "to-csv", input |-> in_path, output |-> out_path, force |-> force]
       /\ Done(cmd_to_csv(fs, in_path, out_path, force))

CmdToJson ==
  /\ ncmds < MaxCmds
  /\ \E in_path \in InPaths, out_path \in OutPaths, force \in BOOLEAN, infer_types \in BOOLEAN :
       /\ call' = [cmd |-> "to-json", input |-> in_path, output |-> out_path,
                   force |-> force, infer_types |-> infer_types]
       /\ Done(cmd_to_json(fs, in_path, out_path, force, infer_types))

CmdVerify ==
  /\ ncmds < MaxCmds
  /\ \E in_path \in InPaths, infer_types \in BOOLEAN :
       /\ call' = [cmd |-> "verify", input |-> in_path, infer_types |-> infer_types]
       /\ Done(cmd_verify(fs, in_path, infer_types))

Next == CmdPing \/ CmdToCsv \/ CmdToJson \/ CmdVerify

Spec == Init /\ [][Next]_vars

----------------------------------------------------------------------------
(* The functions on their own: one call from the initial state *)

FnInit ==
  /\ fs = NoFiles
  /\ call = [fn |-> "none"]
  /\ ret = Pending
  /\ ncmds = 0

CallMaybeParseScalar ==
  /\ call.fn = "none"
  /\ \E s \in {PyStr(c) : c \in Cells} \cup {PyNone} :
       /\ call' = [fn |-> "maybe_parse_scalar", s |-> s]
       /\ ret' = maybe_parse_scalar(s)
  /\ UNCHANGED <<fs, ncmds>>

CallInferFieldsFromJson ==
  /\ call.fn = "none"
  /\ \E data \in ShapeDocs :
       /\ call' = [fn |-> "infer_fields_from_json", data |-> data]
       /\ ret' = infer_fields_from_json(data)
  /\ UNCHANGED <<fs, ncmds>>

CallInferFieldsFromCsv ==
  /\ call.fn = "none"
  /\ \E fieldnames \in Headers :
       /\ call' = [fn |-> "infer_fields_from_csv", fieldnames |-> fieldnames]
       /\ ret' = infer_fields_from_csv(fieldnames)
  /\ UNCHANGED <<fs, ncmds>>

CallCsvTextToJson ==
  /\ call.fn = "none"
  /\ \E text \in CsvTexts, infer_types \in BOOLEAN :
       /\ call' = [fn |-> "csv_text_to_json", text |-> text, infer_types |-> infer_types]
       /\ ret' = csv_text_to_json(text, <<Id>>, infer_types)
  /\ UNCHANGED <<fs, ncmds>>

\* json_to_csv_text with the fields of infer_fields_from_json, then
\* csv_text_to_json, as cmd_verify chains them.
CallRoundtrip ==
  /\ call.fn = "none"
  /\ \E data \in TypedDocs, infer_types \in BOOLEAN :
       /\ call' = [fn |-> "roundtrip", data |-> data, infer_types |-> infer_types]
       /\ ret' = Roundtrip(data, infer_types)
  /\ UNCHANGED <<fs, ncmds>>

FnNext ==
  \/ CallMaybeParseScalar
  \/ CallInferFieldsFromJson
  \/ CallInferFieldsFromCsv
  \/ CallCsvTextToJson
  \/ CallRoundtrip

FnSpec == FnInit /\ [][FnNext]_vars

----------------------------------------------------------------------------
(* Properties of the functions, checked under FnSpec.  The predicates below *)
(* read the call and its result; they are not part of the program.          *)

\* The table a csv_text_to_json call was given: its header and its data rows.
CallHeader == CsvReader(call.text)[1]
CallData == DataRows(CsvReader(call.text))
CallHasHeader == call.fn = "csv_text_to_json" /\ CsvReader(call.text) # <<>>

IdColumns(h) == {i \in 1..Len(h) : h[i] = Id}

\* The key DictReader and the decoder give a row, and whether no later row of
\* the data has it.
KeyOf(h, r) == RawId(RowDict(h, r))
LastOfKey(h, data, i) == \A j \in (i + 1)..Len(data) : KeyOf(h, data[j]) # KeyOf(h, data[i])

\* The row has an 'id' cell that is missing, empty or blank.
BlankId(h, r) == \E i \in IdColumns(h) : i > Len(r) \/ Strip(r[i]) = <<>>

\* The cell of a row under column j, the empty string where the row is short.
CellOr(r, j) == IF j <= Len(r) THEN r[j] ELSE <<>>

\* C10: maybe_parse_scalar tries its probes on the trimmed cell in order, the
\* first match deciding: empty gives "", an int text an int, a float text a
\* float, true/false in any case a bool, and anything else the cell as given,
\* blanks included.  With infer_types false csv_text_to_json stores every cell
\* of a row as the text read, untrimmed.
C10_ProbeOrder ==
  /\ (call.fn = "maybe_parse_scalar" /\ call.s.t = "str") =>
       LET t == Strip(call.s.s)
           isInt == t # <<>> /\ IsIntText(t)
           isFloat == t # <<>> /\ ~isInt /\ IsFloatText(t)
           isBool == t # <<>> /\ ~isInt /\ ~isFloat
                     /\ Lower(t) \in {<<"t", "r", "u", "e">>, <<"f", "a", "l", "s", "e">>}
       IN /\ ret.ok
          /\ t = <<>> => ret.val = PyStr(<<>>)
          /\ isInt => ret.val.t = "int" /\ ret.val.n = IntValue(t)
          /\ isFloat => ret.val.t = "float" /\ ret.val = FloatValue(t)
          /\ isBool => ret.val = PyBool(Lower(t) = <<"t", "r", "u", "e">>)
          /\ (t # <<>> /\ ~isInt /\ ~isFloat /\ ~isBool) => ret.val = call.s
  /\ (CallHasHeader /\ ~call.infer_types /\ ret.ok) =>
       \A i \in 1..Len(CallData) :
         LastOfKey(CallHeader, CallData, i) =>
           \A j \in 1..Len(CallHeader) :
             (j <= Len(CallData[i]) /\ CallHeader[j] # Id) =>
               DictGet(DictGet(ret.val.items, KeyOf(CallHeader, CallData[i]), PyNone).items,
                       CallHeader[j], PyNone) = PyStr(CallData[i][j])

\* A padded cell that no probe matches came back with its blanks.
C10_Witness ==
  /\ call.fn = "maybe_parse_scalar"
  /\ call.s.t = "str"
  /\ call.s.s # Strip(call.s.s)
  /\ Strip(call.s.s) = <<"0", "x", "1">>
  /\ ret = Ok(call.s)

\* The i-th position of h that does not hold 'id'.
OtherColumn(h, k) ==
  CHOOSE i \in 1..Len(h) : h[i] # Id /\ Cardinality({j \in 1..i : h[j] # Id}) = k

\* C4: infer_fields_from_csv raises ValueError for a header that is missing,
\* empty or without 'id'; for any other header it returns 'id' first and then
\* the other names of the header in the order the header has them.
C4_CsvFields ==
  call.fn = "infer_fields_from_csv" =>
    IF call.fieldnames.t = "none" \/ IdColumns(call.fieldnames.items) = {}
    THEN ~ret.ok /\ ret.exc = "ValueError"
    ELSE LET h == call.fieldnames.items
             others == Len(h) - Cardinality(IdColumns(h))
         IN /\ ret.ok
            /\ Len(ret.val) = 1 + others
            /\ ret.val[1] = Id
            /\ \A k \in 1..others : ret.val[k + 1] = h[OtherColumn(h, k)]

\* A header with 'id' last and two other names before it gave 'id' first.
C4_Witness ==
  /\ call.fn = "infer_fields_from_csv"
  /\ call.fieldnames = PyList(<<<<"b">>, <<"a">>, Id>>)
  /\ ret = Ok(<<Id, <<"b">>, <<"a">>>>)

\* The document with its entries, and the fields of each record, in the
\* opposite insertion order.
Reversed(q) == [i \in 1..Len(q) |-> q[Len(q) + 1 - i]]
ReversedDoc(data) ==
  PyDict(Reversed([i \in 1..Len(data.items) |->
                     [k |-> data.items[i].k,
                      v |-> PyDict(Reversed(data.items[i].v.items))]]))

\* C3: for a document whose entries are all records, infer_fields_from_json
\* returns 'id' and then the field names of all records but 'id', each once,
\* in ascending code point order; the same list for the document with the
\* entries and the fields of every record inserted in the opposite order.
C3_JsonFields ==
  (call.fn = "infer_fields_from_json" /\ NonRecords(call.data) = <<>>) =>
    LET names == UNION {DictKeys(call.data.items[i].v.items) : i \in 1..Len(call.data.items)}
    IN /\ ret.ok
       /\ ret.val[1] = Id
       /\ {ret.val[i] : i \in 2..Len(ret.val)} = names \ {Id}
       /\ \A i \in 2..(Len(ret.val) - 1) : StrLess(ret.val[i], ret.val[i + 1])
       /\ infer_fields_from_json(ReversedDoc(call.data)) = ret

\* Two records with their fields in different orders, one of them holding
\* 'id', gave the sorted list.
C3_Witness ==
  /\ call.fn = "infer_fields_from_json"
  /\ Len(call.data.items) = 2
  /\ NonRecords(call.data) = <<>>
  /\ DictKeys(call.data.items[1].v.items) = {<<"b">>, Id}
  /\ DictKeys(call.data.items[2].v.items) = {<<"B">>, <<"b">>}
  /\ call.data.items[2].v.items[1].k = <<"b">>
  /\ ret = Ok(<<Id, <<"B">>, <<"b">>>>)

\* What the round trip claims ask of a document: keys that are not empty and
\* have no blank at either end, records with the same field names, none of
\* them 'id', and values that are ints, floats or bools.
Trimmed(k) == k # <<>> /\ Strip(k) = k
Lossless(data) ==
  /\ \A i \in 1..Len(data.items) :
       /\ Trimmed(data.items[i].k)
       /\ data.items[i].v.t = "dict"
       /\ Id \notin DictKeys(data.items[i].v.items)
       /\ \A j \in 1..Len(data.items[i].v.items) : IsNumber(data.items[i].v.items[j].v)
  /\ \A i, j \in 1..Len(data.items) :
       DictKeys(data.items[i].v.items) = DictKeys(data.items[j].v.items)

HasNaN(data) ==
  \E i \in 1..Len(data.items) : \E j \in 1..Len(data.items[i].v.items) :
    data.items[i].v.items[j].v = PyNaN

\* Two documents with the same keys, the same fields under each key and under
\* each field the same value of the same type.
SameTyped(a, b) ==
  /\ Len(a.items) = Len(b.items)
  /\ DictKeys(a.items) = DictKeys(b.items)
  /\ \A i \in 1..Len(a.items) :
       LET ra == a.items[i].v.items
           rb == DictGet(b.items, a.items[i].k, PyDict(<<>>)).items
       IN /\ Len(ra) = Len(rb)
          /\ DictKeys(ra) = DictKeys(rb)
          /\ \A j \in 1..Len(ra) : DictGet(rb, ra[j].k, PyNone) = ra[j].v

\* C1 as stated: for a document with non-empty trimmed keys, the same field
\* names in every record, none of them 'id', and int, float or bool values,
\* encoding with the inferred fields and decoding with infer_types true
\* returns a document equal to the original (the == of cmd_verify), with
\* every value of the type it had.
C1_AlwaysEqual ==
  (call.fn = "roundtrip" /\ call.infer_types /\ Lossless(call.data)) =>
    /\ ret.ok
    /\ SameTyped(call.data, ret.val)
    /\ PyEq(call.data, ret.val)

\* C1: for such a document the round trip with infer_types true succeeds and
\* returns the same keys, the same fields and under each field the same value
\* of the same type; if no value is nan, the result equals the original under
\* ==.  A nan comes back as nan, which == tells apart from the original nan.
C1_RoundTrip ==
  (call.fn = "roundtrip" /\ call.infer_types /\ Lossless(call.data)) =>
    /\ ret.ok
    /\ SameTyped(call.data, ret.val)
    /\ (~HasNaN(call.data) => PyEq(call.data, ret.val))

\* Two entries, one under a key the writer quotes, with an int, a bool and
\* floats among the values, came back.
C1_Witness ==
  /\ call.fn = "roundtrip"
  /\ call.infer_types
  /\ Lossless(call.data)
  /\ DictKeys(call.data.items) = {<<"k">>, <<"a", ",", "b">>}
  /\ \A i \in 1..2 : Len(call.data.items[i].v.items) = 2
  /\ \E i, j \in 1..2 : /\ call.data.items[i].v.items[j].v.t = "int"
                        /\ call.data.items[3 - i].v.items[3 - j].v.t = "bool"
  /\ ret.ok
  /\ PyEq(call.data, ret.val)

\* What the decoder is to store for a cell: the text, or its inferred scalar.
Stored(cell, infer_types) ==
  IF infer_types THEN maybe_parse_scalar(PyStr(cell)).val ELSE PyStr(cell)

\* Every data row has a cell under each 'id' column, none of them blank.
AllIdsGiven(h, data) == \A i \in 1..Len(data) : ~BlankId(h, data[i])

\* C5: the key of every decoded entry is the 'id' cell of a row, trimmed, and
\* every row's trimmed 'id' cell is a key; a data row whose 'id' cell is
\* missing, empty or blank makes the decode raise the ValueError "CSV row
\* missing id.", whatever rows come before it.
C5_TrimmedIds ==
  (CallHasHeader /\ IdColumns(CallHeader) # {}) =>
    /\ (\E i \in 1..Len(CallData) : BlankId(CallHeader, CallData[i])) =>
         /\ ~ret.ok
         /\ ret.exc = "ValueError"
         /\ ret.msg = "CSV row missing id."
    /\ ret.ok =>
         DictKeys(ret.val.items) =
           {Strip(CallData[i][j]) : i \in 1..Len(CallData), j \in IdColumns(CallHeader)}

\* C6: when rows share an id, the decode succeeds with one entry per distinct
\* id, each holding the values of the last row with that id.
C6_LastWins ==
  ( /\ CallHasHeader
    /\ Cardinality(IdColumns(CallHeader)) = 1
    /\ AllIdsGiven(CallHeader, CallData)
    /\ \E i, j \in 1..Len(CallData) :
         i # j /\ KeyOf(CallHeader, CallData[i]) = KeyOf(CallHeader, CallData[j]) ) =>
    /\ ret.ok
    /\ Len(ret.val.items) =
         Cardinality({KeyOf(CallHeader, CallData[i]) : i \in 1..Len(CallData)})
    /\ \A i \in 1..Len(CallData) :
         LastOfKey(CallHeader, CallData, i) =>
           \A j \in 1..Len(CallHeader) :
             CallHeader[j] # Id =>
               DictGet(DictGet(ret.val.items, KeyOf(CallHeader, CallData[i]), PyNone).items,
                       CallHeader[j], PyNone)
                 = Stored(CellOr(CallData[i], j), call.infer_types)

\* C7: a data row with fewer cells than the header has columns, its id given,
\* does not make the decode fail, and the record holds "" under every field
\* the row has no cell for, with infer_types false and with infer_types true.
C7_ShortRows ==
  ( /\ CallHasHeader
    /\ Cardinality(IdColumns(CallHeader)) = 1
    /\ AllIdsGiven(CallHeader, CallData)
    /\ \E i \in 1..Len(CallData) : Len(CallData[i]) < Len(CallHeader) ) =>
    /\ ret.ok
    /\ \A i \in 1..Len(CallData) :
         LastOfKey(CallHeader, CallData, i) =>
           \A j \in (Len(CallData[i]) + 1)..Len(CallHeader) :
             DictGet(DictGet(ret.val.items, KeyOf(CallHeader, CallData[i]), PyNone).items,
                     CallHeader[j], PyNone) = PyStr(<<>>)

\* C8: a header that names 'id' more than once is refused with a ValueError
\* by infer_fields_from_csv, and by csv_text_to_json before any row is read.
C8_DuplicateId ==
  /\ ( /\ call.fn = "infer_fields_from_csv"
       /\ call.fieldnames.t = "list"
       /\ Cardinality(IdColumns(call.fieldnames.items)) > 1 ) =>
       ~ret.ok /\ ret.exc = "ValueError"
  /\ (CallHasHeader /\ Cardinality(IdColumns(CallHeader)) > 1) =>
       ~ret.ok /\ ret.exc = "ValueError" /\ ret.msg # "CSV row missing id."

----------------------------------------------------------------------------
(* Properties of the commands, checked under Spec *)

\* The document verify read, when its input is a JSON object.
IsObjectFile(p) ==
  /\ is_file(fs, p)
  /\ fs[p].content.fmt = "json"
  /\ fs[p].content.value.t = "dict"
VerifiedDoc == fs[call.input].content.value
VerifyRan == call.cmd = "verify" /\ IsObjectFile(call.input)

\* At least one entry, every entry a record, at least one field, and every
\* value of the given types.
RecordsOf(data, types) ==
  /\ data.items # <<>>
  /\ \A i \in 1..Len(data.items) :
       /\ data.items[i].v.t = "dict"
       /\ \A j \in 1..Len(data.items[i].v.items) : data.items[i].v.items[j].v.t \in types
  /\ \E i \in 1..Len(data.items) : data.items[i].v.items # <<>>

OnlyStrings(data) ==
  \A i \in 1..Len(data.items) : \A j \in 1..Len(data.items[i].v.items) :
    data.items[i].v.items[j].v.t = "str"

\* What verify is to report for a document of numbers: with infer_types false
\* the round trip gives only strings and the exit code is 1, with infer_types
\* true the exit code is 0.
FlagDecides ==
  /\ Roundtrip(VerifiedDoc, FALSE).ok
  /\ OnlyStrings(Roundtrip(VerifiedDoc, FALSE).val)
  /\ ~call.infer_types => ret.exit = 1 /\ ret.msg = "VERIFY: FAIL"
  /\ call.infer_types => ret.exit = 0 /\ ret.msg = "VERIFY: PASS"

\* C2 as stated: for every document with a record and a field whose values
\* are all numbers, verify fails without --infer-types and passes with it.
C2_AnyNumbers ==
  (VerifyRan /\ RecordsOf(VerifiedDoc, {"int", "float"})) => FlagDecides

\* C2: for a document with a record and a field whose keys are non-empty and
\* trimmed, whose records have the same field names, none of them 'id', and
\* whose values are ints, bools or floats other than nan, encoding and
\* decoding with infer_types false gives only strings, verify exits with 1
\* (FAIL) without --infer-types and with 0 (PASS) with it.
C2_FlagDecides ==
  ( /\ VerifyRan
    /\ RecordsOf(VerifiedDoc, {"int", "float", "bool"})
    /\ Lossless(VerifiedDoc)
    /\ ~HasNaN(VerifiedDoc) ) => FlagDecides

\* verify without --infer-types ran on a document of an int and a float and
\* reported FAIL.
C2_Witness ==
  /\ VerifyRan
  /\ ~call.infer_types
  /\ RecordsOf(VerifiedDoc, {"int", "float"})
  /\ Lossless(VerifiedDoc)
  /\ ~HasNaN(VerifiedDoc)
  /\ Len(VerifiedDoc.items[1].v.items) = 2
  /\ ret.exit = 1

\* C9: a to-csv or to-json that ends with exit code 2 for an error found
\* before the write step leaves every path as it was: no file written, no
\* directory made.
C9_NoMutation ==
  [][ ( /\ call'.cmd \in {"to-csv", "to-json"}
        /\ ret'.exit = 2
        /\ ret'.msg # "failed to write output file" ) => fs' = fs ]_vars

====
